---- MODULE Spec2Model ----
(***************************************************************************)
(* Feedwater heater (FWH0D / FWHCondensing0D) assembly and sequential      *)
(* initialization, idaes/unit_models/power_generation/feedwater_heater_0D. *)
(* The state is the fixed flag and value of every variable, the active     *)
(* flag of every equality constraint, and the position of the initialize   *)
(* call.  The heat exchanger / mixer base classes, the serializer          *)
(* (to_json / from_json) and the solver are collaborators outside the      *)
(* listed sources; they are modelled from the design document.             *)
(***************************************************************************)
EXTENDS Integers, Sequences, FiniteSets, TLC

VARIABLES
    cfg,        \* FWH0D config: has_desuperheat, has_drain_mixer, has_drain_cooling
    kwargs,     \* keyword arguments of the initialize call
    call,       \* which initialize the caller invokes: "fwh" or "cond"
    pc,         \* position of the program
    units,      \* sub-units that exist after build
    arcs,       \* Arcs created by build
    val,        \* variable -> value (NoValue when unset)
    fixed,      \* variable -> fixed flag
    active,     \* constraint -> active flag
    istate,     \* snapshot of FWH0D.initialize (line 245)
    cstate,     \* snapshot of FWHCondensing0D.initialize (line 146)
    status,     \* termination condition of the last solve of this layer
    nsolve,     \* number of solver runs so far (stamps the values they write)
    log,        \* messages emitted on _log
    ret,        \* what the call returned
    exc,        \* exception that reached the caller
    pre,        \* history: flags and values immediately before the call
    inits,      \* history: sub-unit initialize calls, in order
    solves,     \* history: solves of this layer (block, degrees of freedom)
    everFixed,  \* history: variables seen fixed at some step of the call
    h1,         \* history of the single-operation specifications (inputs as given)
    config,     \* property-package options of the feedwater heater and its sections
    inst,       \* sub-unit -> the options it was instantiated with
    events      \* history: what the initialize call did, in order

vars == <<cfg, kwargs, call, pc, units, arcs, val, fixed, active, istate,
          cstate, status, nsolve, log, ret, exc, pre, inits, solves,
          everFixed, h1, config, inst, events>>

(***************************************************************************)
(* Bounds                                                                  *)
(***************************************************************************)
\* largest value a port variable holds in the port-copy specification
MaxVal == 1

(***************************************************************************)
(* Static structure: units, ports, variables, constraints                  *)
(***************************************************************************)
\* Python None as the value of a variable that was never set
NoValue == -1

\* state variables of a port, in port order; each is indexed by the time set
\* of the flowsheet, which is the single point 0 for these steady-state models
StateVarSeq == <<"flow_mol", "enth_mol", "pressure">>
StateVars == {StateVarSeq[i] : i \in 1..Len(StateVarSeq)}

HXPorts == {"inlet_1", "inlet_2", "outlet_1", "outlet_2"}
MixerPorts == {"steam", "drain", "outlet"}

PortsOf(u) == IF u = "drain_mix" THEN MixerPorts ELSE HXPorts

\* a port is <<unit, port name>>; a variable is <<unit, port name, name>>
PortVars(p) == {<<p[1], p[2], n>> : n \in StateVars}

FlowMol(p) == <<p[1], p[2], "flow_mol">>

ScalarVars(u) ==
    IF u = "drain_mix" THEN {}
    ELSE {<<u, "", "area">>, <<u, "", "overall_heat_transfer_coefficient">>}

UnitVars(u) == UNION {PortVars(<<u, p>>) : p \in PortsOf(u)} \cup ScalarVars(u)

VarsOf(us) == UNION {UnitVars(u) : u \in us}

\* equality constraints of a heat exchanger, one per outlet state variable
\* (balances with the internal duty variables eliminated)
HXCons(u) == {<<u, o, n>> : o \in {"outlet_1", "outlet_2"}, n \in StateVars}

\* equality constraints of the mixer with MomentumMixingType.none
MixerCons == {<<"drain_mix", "mix", "flow_mol">>, <<"drain_mix", "mix", "enth_mol">>}

mixer_pressure_constraint == <<"drain_mix", "mixer_pressure_constraint", "">>

extraction_rate_constraint == <<"condense", "extraction_rate_constraint", "">>

\* network.expand_arcs: one equality per port member of each Arc
ArcCons(as) == {<<a.name, "expanded", n>> : a \in as, n \in StateVars}

UnitCons(u) ==
    IF u = "drain_mix" THEN MixerCons \cup {mixer_pressure_constraint}
    ELSE IF u = "condense" THEN HXCons(u) \cup {extraction_rate_constraint}
    ELSE HXCons(u)

ConsOf(us, as) == UNION {UnitCons(u) : u \in us} \cup ArcCons(as)

\* idaes.ui.report.degrees_of_freedom: unfixed variables minus active equalities
degrees_of_freedom(fx, act) ==
    Cardinality({v \in DOMAIN fx : ~fx[v]}) - Cardinality({c \in DOMAIN act : act[c]})

(***************************************************************************)
(* Variable / constraint primitives                                        *)
(***************************************************************************)
Fix(fx, S) == [v \in DOMAIN fx |-> IF v \in S THEN TRUE ELSE fx[v]]

Unfix(fx, S) == [v \in DOMAIN fx |-> IF v \in S THEN FALSE ELSE fx[v]]

SetActive(act, c, b) == [x \in DOMAIN act |-> IF x = c THEN b ELSE act[x]]

\* value() of a port member raises when the member has no value
PortHasValues(v, p) == \A x \in PortVars(p) : v[x] # NoValue

\* index in port order of the first member of p without a value (0 if none)
FirstUnset(v, p) ==
    IF PortHasValues(v, p) THEN 0
    ELSE CHOOSE i \in 1..Len(StateVarSeq) :
            /\ v[<<p[1], p[2], StateVarSeq[i]>>] = NoValue
            /\ \A j \in 1..(i - 1) : v[<<p[1], p[2], StateVarSeq[j]>>] # NoValue

Position(n) == CHOOSE i \in 1..Len(StateVarSeq) : StateVarSeq[i] = n

\* mutation of _set_port: a fixed destination element keeps its value
SetPortSkipFixed(v, fx, p1, p2) ==
    [x \in DOMAIN v |->
        IF x[1] = p1[1] /\ x[2] = p1[2] /\ ~fx[x]
        THEN v[<<p2[1], p2[2], x[3]>>] ELSE v[x]]

\* mutation of _set_port: the copy accumulates into the destination
SetPortAccumulate(v, fx, p1, p2) ==
    [x \in DOMAIN v |->
        IF x[1] = p1[1] /\ x[2] = p1[2]
        THEN v[x] + v[<<p2[1], p2[2], x[3]>>] ELSE v[x]]

\* _set_port(p1, p2): copy the value of every member of p2 to p1, stopping
\* at the first member of p2 that has no value
_set_port(v, fx, p1, p2) ==
    LET bad == FirstUnset(v, p2) IN
    [x \in DOMAIN v |->
        IF x[1] = p1[1] /\ x[2] = p1[2] /\ (bad = 0 \/ Position(x[3]) < bad)
        THEN v[<<p2[1], p2[2], x[3]>>] ELSE v[x]]

\* solver / sub-unit initialize write a new iterate into the free variables
Stamp(k) == 10 + k

Solve(v, fx, S, k) == [x \in DOMAIN v |-> IF x \in S /\ ~fx[x] THEN Stamp(k) ELSE v[x]]

\* HeatExchanger.initialize / Mixer.initialize: inlets are held as boundary
\* conditions, the outlets are solved for, flags are left as found
OutletVars(u) ==
    IF u = "drain_mix" THEN PortVars(<<u, "outlet">>)
    ELSE PortVars(<<u, "outlet_1">>) \cup PortVars(<<u, "outlet_2">>)

SubUnitInitialize(v, fx, u, k) == Solve(v, fx, OutletVars(u), k)

\* to_json(wts=StoreSpec.value_isfixed_isactive(only_fixed=True)) on a block
to_json(v, fx, act, vs, cs) ==
    [fixed  |-> [x \in vs |-> fx[x]],
     value  |-> [x \in {y \in vs : fx[y]} |-> v[x]],
     active |-> [c \in cs |-> act[c]]]

from_json_fixed(fx, sd) ==
    [x \in DOMAIN fx |-> IF x \in DOMAIN sd.fixed THEN sd.fixed[x] ELSE fx[x]]

from_json_value(v, sd) ==
    [x \in DOMAIN v |-> IF x \in DOMAIN sd.value THEN sd.value[x] ELSE v[x]]

from_json_active(act, sd) ==
    [c \in DOMAIN act |-> IF c \in DOMAIN sd.active THEN sd.active[c] ELSE act[c]]

EmptySnapshot == [fixed |-> <<>>, value |-> <<>>, active |-> <<>>]

(***************************************************************************)
(* Configuration, construction and the caller's set-up                     *)
(***************************************************************************)
Configs == [has_desuperheat : BOOLEAN, has_drain_mixer : BOOLEAN,
            has_drain_cooling : BOOLEAN]

\* output levels the caller passes as outlvl
OutLvls == {0, 2}

\* TerminationCondition values the solver reports
Statuses == {"optimal", "infeasible", "other"}

\* solver options of the test: initialize(optarg={"max_iter":50})
TestOptions == {<<"max_iter", 50>>}

\* keyword arguments of an initialize call: an output level alone, or (at the
\* default output level, as in the test) solver options under the keyword of
\* the test (optarg) or under the keyword the code reads (oparg)
Kwargs ==
    [outlvl : OutLvls]
    \cup [outlvl : {0}, optarg : {TestOptions}]
    \cup [outlvl : {0}, oparg : {TestOptions}]

\* sentinel of idaes.core for "take the package of the parent"
useDefault == "useDefault"

SideOptions(pp, args) == [property_package |-> pp, property_package_args |-> args]

HXOptions(s1, s2) == [side_1 |-> s1, side_2 |-> s2]

Sections == {"condense", "desuperheat", "cooling"}

\* property-package options as the end-to-end test passes them: a package for
\* the feedwater heater, nothing for the sections
TestConfig ==
    [property_package |-> "P", property_package_args |-> "{}",
     condense |-> HXOptions(SideOptions(useDefault, "{}"), SideOptions(useDefault, "{}")),
     desuperheat |-> HXOptions(SideOptions(useDefault, "{}"), SideOptions(useDefault, "{}")),
     cooling |-> HXOptions(SideOptions(useDefault, "{}"), SideOptions(useDefault, "{}"))]

Init ==
    /\ cfg \in Configs
    /\ kwargs \in Kwargs
    /\ call = "none"
    /\ pc = "new"
    /\ units = {}
    /\ arcs = {}
    /\ val = <<>>
    /\ fixed = <<>>
    /\ active = <<>>
    /\ istate = EmptySnapshot
    /\ cstate = EmptySnapshot
    /\ status = "none"
    /\ nsolve = 0
    /\ log = <<>>
    /\ ret = "none"
    /\ exc = "none"
    /\ pre = EmptySnapshot
    /\ inits = <<>>
    /\ solves = <<>>
    /\ everFixed = {}
    /\ h1 = <<>>
    /\ config = TestConfig
    /\ inst = <<>>
    /\ events = <<>>

Arc(n, s, d) == [name |-> n, source |-> s, destination |-> d]

\* mutation of the assembly: the drain-cooling section is keyed on the
\* desuperheat flag
BuildUnitsWrongFlag(c) ==
    {"condense"}
        \cup (IF c.has_drain_mixer THEN {"drain_mix"} ELSE {})
        \cup (IF c.has_desuperheat THEN {"desuperheat"} ELSE {})
        \cup (IF c.has_desuperheat THEN {"cooling"} ELSE {})

\* sub-units FWH0D.build instantiates
BuildUnits(c) ==
    {"condense"}
        \cup (IF c.has_drain_mixer THEN {"drain_mix"} ELSE {})
        \cup (IF c.has_desuperheat THEN {"desuperheat"} ELSE {})
        \cup (IF c.has_drain_cooling THEN {"cooling"} ELSE {})

\* lines 204-205
MixerArcs ==
    {Arc("mix_out_arc", <<"drain_mix", "outlet">>, <<"condense", "inlet_1">>)}

\* lines 214-224
DesuperheatArcs(c) ==
    {IF c.has_drain_mixer
     THEN Arc("desuperheat_drain_arc", <<"desuperheat", "outlet_1">>,
              <<"drain_mix", "steam">>)
     ELSE Arc("desuperheat_drain_arc", <<"desuperheat", "outlet_1">>,
              <<"condense", "inlet_1">>),
     Arc("condense_out2_arc", <<"condense", "outlet_2">>, <<"desuperheat", "inlet_2">>)}

\* lines 234-238
CoolingArcs ==
    {Arc("cooling_out2_arc", <<"cooling", "outlet_2">>, <<"condense", "inlet_2">>),
     Arc("condense_out1_arc", <<"condense", "outlet_1">>, <<"cooling", "inlet_1">>)}

\* mutation of the assembly: with the mixer present the desuperheat outlet is
\* still wired to the condensing section
BuildArcsNoRebind(c) ==
    (IF c.has_drain_mixer
     THEN {Arc("mix_out_arc", <<"drain_mix", "outlet">>, <<"condense", "inlet_1">>)}
     ELSE {})
    \cup
    (IF c.has_desuperheat
     THEN {Arc("desuperheat_drain_arc", <<"desuperheat", "outlet_1">>,
               <<"condense", "inlet_1">>),
           Arc("condense_out2_arc", <<"condense", "outlet_2">>,
               <<"desuperheat", "inlet_2">>)}
     ELSE {})
    \cup
    (IF c.has_drain_cooling
     THEN {Arc("cooling_out2_arc", <<"cooling", "outlet_2">>, <<"condense", "inlet_2">>),
           Arc("condense_out1_arc", <<"condense", "outlet_1">>, <<"cooling", "inlet_1">>)}
     ELSE {})

\* Arcs FWH0D.build creates
BuildArcs(c) ==
    (IF c.has_drain_mixer THEN MixerArcs ELSE {})
        \cup (IF c.has_desuperheat THEN DesuperheatArcs(c) ELSE {})
        \cup (IF c.has_drain_cooling THEN CoolingArcs ELSE {})

\* mutation of _set_prop_pack: side_2 is decided by the option of side_1
SetPropPackBySide1(hxcfg, fwhcfg) ==
    IF hxcfg.side_1.property_package = useDefault
    THEN HXOptions(SideOptions(fwhcfg.property_package, fwhcfg.property_package_args),
                   SideOptions(fwhcfg.property_package, fwhcfg.property_package_args))
    ELSE hxcfg

\* _set_prop_pack(hxcfg, fwhcfg): the options of the heat exchanger after the call
_set_prop_pack(hxcfg, fwhcfg) ==
    HXOptions(
        IF hxcfg.side_1.property_package = useDefault
        THEN SideOptions(fwhcfg.property_package, fwhcfg.property_package_args)
        ELSE hxcfg.side_1,
        IF hxcfg.side_2.property_package = useDefault
        THEN SideOptions(fwhcfg.property_package, fwhcfg.property_package_args)
        ELSE hxcfg.side_2)

\* lines 182, 209, 228: _set_prop_pack(config.<section>, config)
SetSection(cf, sec) == [cf EXCEPT ![sec] = _set_prop_pack(cf[sec], cf)]

\* lines 187-193: options of the drain mixer
MixerOptions(cf) ==
    [property_package |-> cf.property_package,
     property_package_args |-> cf.property_package_args]

\* a sub-unit is instantiated with the options opts
Instantiate(in, u, opts) ==
    [x \in DOMAIN in \cup {u} |-> IF x = u THEN opts ELSE in[x]]

\* options of the feedwater heater after FWH0D.build
BuildConfig(c, cf) ==
    LET c1 == SetSection(cf, "condense")
        c2 == IF c.has_desuperheat THEN SetSection(c1, "desuperheat") ELSE c1
    IN  IF c.has_drain_cooling THEN SetSection(c2, "cooling") ELSE c2

\* options each sub-unit of FWH0D.build is instantiated with
BuildInst(c, cf) ==
    [u \in BuildUnits(c) |-> IF u = "drain_mix" THEN MixerOptions(cf) ELSE cf[u]]

\* value given to the area of the desuperheat and drain-cooling sections
DefaultArea == 10

\* value of a variable as the sub-unit constructors leave it
InitialGuess == 0

BuildValue(x) ==
    IF x[3] = "area" /\ x[1] \in {"desuperheat", "cooling"} THEN DefaultArea
    ELSE InitialGuess

\* FWH0D.build
Build ==
    /\ pc = "new"
    /\ units' = BuildUnits(cfg)
    /\ arcs' = BuildArcs(cfg)
    /\ config' = BuildConfig(cfg, config)
    /\ inst' = BuildInst(cfg, config')
    /\ val' = [x \in VarsOf(units') |-> BuildValue(x)]
    /\ fixed' = [x \in VarsOf(units') |-> FALSE]
    /\ active' = [c \in ConsOf(units', arcs') |-> TRUE]
    /\ pc' = "built"
    /\ UNCHANGED <<cfg, kwargs, call, istate, cstate, status, nsolve, log, ret,
                   exc, pre, inits, solves, everFixed, h1, events>>

\* the port through which extracted steam enters the feedwater heater
SteamInlet(c) ==
    IF c.has_desuperheat THEN <<"desuperheat", "inlet_1">>
    ELSE IF c.has_drain_mixer THEN <<"drain_mix", "steam">>
    ELSE <<"condense", "inlet_1">>

\* the port through which feedwater enters the feedwater heater
FeedwaterInlet(c) ==
    IF c.has_drain_cooling THEN <<"cooling", "inlet_2">>
    ELSE <<"condense", "inlet_2">>

\* variables the end-to-end test fixes: the boundary inlets except the steam
\* flow rate, and the area and heat-transfer coefficient of every section
TestPattern(c) ==
    (PortVars(SteamInlet(c)) \ {FlowMol(SteamInlet(c))})
        \cup PortVars(FeedwaterInlet(c))
        \cup (IF c.has_drain_mixer THEN PortVars(<<"drain_mix", "drain">>) ELSE {})
        \cup UNION {ScalarVars(u) : u \in BuildUnits(c)}

\* the same set-up turned round: the caller fixes the steam flow rate and
\* leaves the area of the condensing section to be calculated
RatingPattern(c) ==
    (TestPattern(c) \cup {FlowMol(SteamInlet(c))}) \ {<<"condense", "", "area">>}

\* value the caller gives to a variable
UserValue == 2

\* lines 46-47 of the test: the steam flow rate is given a value by fix(100)
\* and then unfixed, so it holds the caller's value when it is not fixed
GivenValues(c) == {FlowMol(SteamInlet(c))}

\* the values after the caller's set-up: a variable in F is fixed at the
\* caller's value, a variable in U is left without a value, the steam flow
\* rate holds the caller's value, any other variable keeps the value v gives
SetupValues(c, v, F, U) ==
    [x \in DOMAIN v |->
        IF x \in F THEN UserValue
        ELSE IF x \in U THEN NoValue
        ELSE IF x \in GivenValues(c) THEN UserValue
        ELSE v[x]]

\* the ports no Arc leads into: the caller supplies their values
BoundaryInlets(c) ==
    {SteamInlet(c), FeedwaterInlet(c)}
        \cup (IF c.has_drain_mixer THEN {<<"drain_mix", "drain">>} ELSE {})

\* what the caller may leave without a value: nothing, or one variable of a
\* boundary inlet that it does not fix
UnsetChoices(c, F) ==
    {{}} \cup {{x} : x \in UNION {PortVars(p) : p \in BoundaryInlets(c)} \ F}

\* the caller fixes variables (the test pattern, the pattern with one
\* variable more or less, or the pattern turned round), may leave a variable
\* it does not fix without a value, and may deactivate the extraction
\* constraint
Setup ==
    /\ pc = "built"
    /\ \E F \in {TestPattern(cfg), RatingPattern(cfg)}
                \cup {TestPattern(cfg) \cup {x} : x \in DOMAIN fixed}
                \cup {TestPattern(cfg) \ {x} : x \in DOMAIN fixed} :
          /\ fixed' = [x \in DOMAIN fixed |-> x \in F]
          /\ \E U \in UnsetChoices(cfg, F) : val' = SetupValues(cfg, val, F, U)
    /\ \E b \in BOOLEAN : active' = SetActive(active, extraction_rate_constraint, b)
    /\ pc' = "idle"
    /\ UNCHANGED <<cfg, kwargs, call, units, arcs, istate, cstate, status, nsolve,
                   log, ret, exc, pre, inits, solves, everFixed, h1, config, inst,
                   events>>

(***************************************************************************)
(* FWH0D.initialize and FWHCondensing0D.initialize, step by step.  A step  *)
(* ends where control leaves this module's code for a collaborator that    *)
(* may raise (a sub-unit initialize, the solver) or where a later step     *)
(* observes the state.                                                     *)
(***************************************************************************)
Static == <<cfg, kwargs, units, arcs, h1, config, inst>>

Raise(e) == pc' = "raised" /\ exc' = e

Track == everFixed' = everFixed \cup {x \in DOMAIN fixed' : fixed'[x]}

Snapshot(v, fx, act) == [fixed |-> fx, value |-> v, active |-> act]

\* one entry of the history: what was done (ev), to what (who: a block, a
\* sub-unit, or the destination port of a copy), from where (src: the source
\* port of a copy, else empty), and whether the extraction-rate constraint was
\* active at that moment
Event(e, w, sr, x) == [ev |-> e, who |-> w, src |-> sr, extr |-> x]

Extr(act) == act[extraction_rate_constraint]

Did(e, w) == Event(e, w, <<>>, Extr(active))

Copied(p1, p2) == Event("copy", p1, p2, Extr(active))

\* mutation of the capture: the values of all variables are stored
\* (only_fixed=False)
CaptureStateAllValues(v, fx, act) == [fixed |-> fx, value |-> v, active |-> act]

\* lines 244-245: sp = StoreSpec.value_isfixed_isactive(only_fixed=True);
\* istate = to_json(self, return_dict=True, wts=sp)
CaptureState(v, fx, act) == to_json(v, fx, act, DOMAIN fx, DOMAIN act)

\* lines 242-245: the caller invokes FWH0D.initialize; the snapshot is taken
FWHCall ==
    /\ pc = "idle"
    /\ call' = "fwh"
    /\ pre' = Snapshot(val, fixed, active)
    /\ istate' = CaptureState(val, fixed, active)
    /\ everFixed' = {x \in DOMAIN fixed : fixed[x]}
    /\ events' = Append(events, Did("capture", "fwh"))
    /\ pc' = "desuperheat"
    /\ UNCHANGED <<Static, val, fixed, active, cstate, status, nsolve, log, ret,
                   exc, inits, solves>>

\* the caller invokes FWHCondensing0D.initialize on the condensing section
CondCall ==
    /\ pc = "idle"
    /\ call' = "cond"
    /\ pre' = Snapshot(val, fixed, active)
    /\ everFixed' = {x \in DOMAIN fixed : fixed[x]}
    /\ pc' = "cond_enter"
    /\ UNCHANGED <<Static, val, fixed, active, istate, cstate, status, nsolve,
                   log, ret, exc, inits, solves, events>>

\* lines 253-267: initialize the desuperheat section if included
DesuperheatStep ==
    /\ pc = "desuperheat"
    /\ IF ~cfg.has_desuperheat
       THEN /\ pc' = "mixer"
            /\ UNCHANGED <<val, fixed, nsolve, exc, inits, events>>
       ELSE LET in1 == <<"desuperheat", "inlet_1">>
                out1 == <<"desuperheat", "outlet_1">>
                src == IF cfg.has_drain_cooling THEN <<"cooling", "inlet_2">>
                       ELSE <<"condense", "inlet_2">>
                dst == IF cfg.has_drain_mixer THEN <<"drain_mix", "steam">>
                       ELSE <<"condense", "inlet_1">>
                v1 == _set_port(val, fixed, <<"desuperheat", "inlet_2">>, src)
                v2 == SubUnitInitialize(v1, fixed, "desuperheat", nsolve + 1)
                f1 == Unfix(fixed, {FlowMol(in1)})
                v3 == _set_port(v2, f1, dst, out1)
                f2 == Unfix(Fix(f1, PortVars(in1)), {FlowMol(in1)})
                e1 == Append(events, Copied(<<"desuperheat", "inlet_2">>, src))
                e2 == Append(e1, Did("init", "desuperheat"))
            IN  IF ~PortHasValues(val, src)
                THEN /\ Raise("ValueError")
                     /\ val' = v1
                     /\ events' = e1
                     /\ UNCHANGED <<fixed, nsolve, inits>>
                ELSE /\ inits' = Append(inits, "desuperheat")
                     /\ \/ /\ Raise("InitError")
                           /\ val' = v1
                           /\ events' = e2
                           /\ UNCHANGED <<fixed, nsolve>>
                        \/ /\ nsolve' = nsolve + 1
                           /\ val' = v3
                           /\ events' = Append(e2, Copied(dst, out1))
                           /\ IF ~PortHasValues(v2, out1)
                              THEN Raise("ValueError") /\ fixed' = f1
                              ELSE pc' = "mixer" /\ fixed' = f2 /\ UNCHANGED exc
    /\ Track
    /\ UNCHANGED <<Static, call, active, istate, cstate, status, log, ret, pre,
                   solves>>

\* mutation of the release: only the steam flow rate is unfixed
MixerReleaseFlowOnly(fx, c) == Unfix(fx, {FlowMol(<<"drain_mix", "steam">>)})

\* lines 276-279: release the steam inlet of the mixer after its initialization
MixerRelease(fx, c) ==
    IF c.has_desuperheat THEN Unfix(fx, PortVars(<<"drain_mix", "steam">>))
    ELSE Unfix(fx, {FlowMol(<<"drain_mix", "steam">>)})

\* lines 269-279: initialize the drain mixer if included
MixerStep ==
    /\ pc = "mixer"
    /\ IF ~cfg.has_drain_mixer
       THEN /\ pc' = "condense"
            /\ UNCHANGED <<val, fixed, nsolve, exc, inits, events>>
       ELSE LET steam == <<"drain_mix", "steam">>
                f1 == Unfix(Fix(Fix(fixed, PortVars(steam)),
                                PortVars(<<"drain_mix", "drain">>)),
                            PortVars(<<"drain_mix", "outlet">>))
                v1 == SubUnitInitialize(val, f1, "drain_mix", nsolve + 1)
                v2 == _set_port(v1, f1, <<"condense", "inlet_1">>,
                                <<"drain_mix", "outlet">>)
                f2 == MixerRelease(f1, cfg)
                e1 == Append(events, Did("init", "drain_mix"))
            IN  /\ inits' = Append(inits, "drain_mix")
                /\ \/ /\ Raise("InitError")
                      /\ fixed' = f1
                      /\ events' = e1
                      /\ UNCHANGED <<val, nsolve>>
                   \/ /\ nsolve' = nsolve + 1
                      /\ val' = v2
                      /\ events' = Append(e1, Copied(<<"condense", "inlet_1">>,
                                                     <<"drain_mix", "outlet">>))
                      /\ IF ~PortHasValues(v1, <<"drain_mix", "outlet">>)
                         THEN Raise("ValueError") /\ fixed' = f1
                         ELSE pc' = "condense" /\ fixed' = f2 /\ UNCHANGED exc
    /\ Track
    /\ UNCHANGED <<Static, call, active, istate, cstate, status, log, ret, pre,
                   solves>>

\* lines 280-285: seed and fix the feedwater inlet for the condensing section
CondensePre ==
    /\ pc = "condense"
    /\ IF cfg.has_drain_cooling
       THEN LET src == <<"cooling", "inlet_2">> IN
            /\ val' = _set_port(val, fixed, <<"condense", "inlet_2">>, src)
            /\ events' = Append(events, Copied(<<"condense", "inlet_2">>, src))
            /\ IF ~PortHasValues(val, src)
               THEN Raise("ValueError") /\ UNCHANGED fixed
               ELSE /\ fixed' = Fix(fixed, PortVars(src))
                    /\ pc' = "cond_enter"
                    /\ UNCHANGED exc
       ELSE /\ fixed' = Fix(fixed, PortVars(<<"condense", "inlet_2">>))
            /\ pc' = "cond_enter"
            /\ UNCHANGED <<val, exc, events>>
    /\ Track
    /\ UNCHANGED <<Static, call, active, istate, cstate, status, nsolve, log,
                   ret, pre, inits, solves>>

CondenseVars == UnitVars("condense")

CondenseCons == UnitCons("condense")

\* lines 134-135: the constraint is deactivated, then the base initialize runs
CondenseBaseInit ==
    << Event("deactivate", "condense", <<>>, FALSE),
       Event("init", "condense", <<>>, FALSE) >>

\* lines 134-146: base heat-exchanger initialization with the extraction
\* constraint deactivated, then the constraint is activated and the snapshot
\* of the condensing section is taken
CondEnter ==
    /\ pc = "cond_enter"
    /\ inits' = Append(inits, "condense")
    /\ \/ /\ Raise("InitError")
          /\ active' = SetActive(active, extraction_rate_constraint, FALSE)
          /\ events' = events \o CondenseBaseInit
          /\ UNCHANGED <<val, nsolve, cstate>>
       \/ /\ nsolve' = nsolve + 1
          /\ val' = SubUnitInitialize(val, fixed, "condense", nsolve + 1)
          /\ active' = SetActive(active, extraction_rate_constraint, TRUE)
          /\ cstate' = to_json(val', fixed, active', CondenseVars, CondenseCons)
          /\ events' = events \o CondenseBaseInit
                          \o << Event("activate", "condense", <<>>, TRUE),
                                Event("capture", "condense", <<>>, TRUE) >>
          /\ pc' = "cond_solve"
          /\ UNCHANGED exc
    /\ UNCHANGED <<Static, call, fixed, istate, status, log, ret, pre, solves,
                   everFixed>>

\* degrees of freedom of the sub-block with variables vs and constraints cs
BlockDof(fx, act, vs, cs) ==
    degrees_of_freedom([x \in vs |-> fx[x]], [c \in cs |-> act[c]])

\* kwargs.get(k, d)
KwGet(kw, k, d) == IF k \in DOMAIN kw THEN kw[k] ELSE d

NoOptions == {}

\* lines 139 and 295: the options handed to the solver
SolverOptions(kw) == KwGet(kw, "oparg", NoOptions)

SolveRecord(b, d) == [block |-> b, dof |-> d, options |-> SolverOptions(kwargs)]

\* mutation of the solve: a non-optimal status is answered by one more solve
SolveAgainOnFailure(s, done) == s # "optimal" /\ done < 3

\* lines 155-161 and 298-303: the status report follows the solve whatever the
\* status; there is no loop around the solve
SolveAgain(s, done) == FALSE

\* lines 148-155: fix the inputs of the condensing section, free its outlets
\* and the steam flow, and solve the section
CondSolve ==
    /\ pc = "cond_solve"
    /\ LET in1 == <<"condense", "inlet_1">>
           f == Unfix(Unfix(Fix(Fix(fixed, ScalarVars("condense")),
                                PortVars(in1) \cup PortVars(<<"condense", "inlet_2">>)),
                            PortVars(<<"condense", "outlet_1">>)
                                \cup PortVars(<<"condense", "outlet_2">>)),
                      {FlowMol(in1)})
       IN  /\ fixed' = f
           /\ solves' = Append(solves,
                  SolveRecord("condense", BlockDof(f, active, CondenseVars, CondenseCons)))
           /\ events' = Append(events, Did("solve", "condense"))
           /\ \/ /\ Raise("SolverError")
                 /\ UNCHANGED <<val, status, nsolve>>
              \/ /\ \E s \in Statuses : status' = s
                 /\ nsolve' = nsolve + 1
                 /\ val' = Solve(val, f, CondenseVars, nsolve + 1)
                 /\ pc' = IF SolveAgain(status', Len(solves')) THEN "cond_solve"
                          ELSE "cond_log"
                 /\ UNCHANGED exc
    /\ Track
    /\ UNCHANGED <<Static, call, active, istate, cstate, log, ret, pre, inits>>

LogRecord(l, n, m) == [level |-> l, name |-> n, msg |-> m]

\* mutation of the status report: a non-optimal status is dropped silently
LogStatusSilent(lg, n, s, lvl, okmsg) ==
    IF s = "optimal" /\ lvl >= 2 THEN Append(lg, LogRecord("info", n, okmsg))
    ELSE lg

\* lines 157-161 and 299-303: report the termination condition on _log
LogStatus(lg, n, s, lvl, okmsg) ==
    IF s = "optimal"
    THEN IF lvl >= 2 THEN Append(lg, LogRecord("info", n, okmsg)) ELSE lg
    ELSE Append(lg, LogRecord("warning", n, "Initialization Failed."))

\* lines 157-161
CondLog ==
    /\ pc = "cond_log"
    /\ log' = LogStatus(log, "condense", status, kwargs.outlvl, "Initialization Failed.")
    /\ pc' = "cond_restore"
    /\ UNCHANGED <<Static, call, val, fixed, active, istate, cstate, status, nsolve,
                   ret, exc, pre, inits, solves, everFixed, events>>

\* line 163: restore the snapshot of the condensing section; the standalone
\* call returns here
CondRestore ==
    /\ pc = "cond_restore"
    /\ fixed' = from_json_fixed(fixed, cstate)
    /\ val' = from_json_value(val, cstate)
    /\ active' = from_json_active(active, cstate)
    /\ events' = Append(events, Event("restore", "condense", <<>>, Extr(active')))
    /\ IF call = "cond"
       THEN pc' = "returned" /\ ret' = "None"
       ELSE pc' = "cooling" /\ UNCHANGED ret
    /\ UNCHANGED <<Static, call, istate, cstate, status, nsolve, log, exc, pre,
                   inits, solves, everFixed>>

\* mutation of the drain-cooling step: the section is seeded but its
\* initialize is never called
CoolingInitSkipped(c, is) == is

\* line 290: the drain-cooling section is initialized if it is included
CoolingInit(c, is) == IF c.has_drain_cooling THEN Append(is, "cooling") ELSE is

\* lines 287-290: initialize the drain-cooling section if included
CoolingStep ==
    /\ pc = "cooling"
    /\ IF ~cfg.has_drain_cooling
       THEN /\ pc' = "dof"
            /\ inits' = CoolingInit(cfg, inits)
            /\ UNCHANGED <<val, nsolve, exc, events>>
       ELSE LET src == <<"condense", "outlet_1">>
                v1 == _set_port(val, fixed, <<"cooling", "inlet_1">>, src)
                e1 == Append(events, Copied(<<"cooling", "inlet_1">>, src))
            IN  IF ~PortHasValues(val, src)
                THEN /\ Raise("ValueError")
                     /\ val' = v1
                     /\ events' = e1
                     /\ UNCHANGED <<nsolve, inits>>
                ELSE /\ inits' = CoolingInit(cfg, inits)
                     /\ events' = IF inits' = inits THEN e1
                                  ELSE Append(e1, Did("init", "cooling"))
                     /\ \/ /\ Raise("InitError")
                           /\ val' = v1
                           /\ UNCHANGED nsolve
                        \/ /\ nsolve' = nsolve + 1
                           /\ val' = SubUnitInitialize(v1, fixed, "cooling", nsolve + 1)
                           /\ pc' = "dof"
                           /\ UNCHANGED exc
    /\ UNCHANGED <<Static, call, fixed, active, istate, cstate, status, log, ret,
                   pre, solves, everFixed>>

\* mutation of the check: the assertion is compiled away
AssertDofDisabled(d) == TRUE

\* line 297: assert(degrees_of_freedom(self)==0)
AssertDof(d) == d = 0

\* lines 292-297: set up the solver and check the degrees of freedom
DofCheck ==
    /\ pc = "dof"
    /\ IF AssertDof(degrees_of_freedom(fixed, active))
       THEN pc' = "solve" /\ UNCHANGED exc
       ELSE Raise("AssertionError")
    /\ UNCHANGED <<Static, call, val, fixed, active, istate, cstate, status,
                   nsolve, log, ret, pre, inits, solves, everFixed, events>>

\* line 298: solve the whole feedwater heater
CoupledSolve ==
    /\ pc = "solve"
    /\ solves' = Append(solves, SolveRecord("fwh", degrees_of_freedom(fixed, active)))
    /\ events' = Append(events, Did("solve", "fwh"))
    /\ \/ /\ Raise("SolverError")
          /\ UNCHANGED <<val, status, nsolve>>
       \/ /\ \E s \in Statuses : status' = s
          /\ nsolve' = nsolve + 1
          /\ val' = Solve(val, fixed, DOMAIN val, nsolve + 1)
          /\ pc' = IF SolveAgain(status', Len(solves')) THEN "solve" ELSE "log"
          /\ UNCHANGED exc
    /\ UNCHANGED <<Static, call, fixed, active, istate, cstate, log, ret, pre,
                   inits, everFixed>>

\* lines 299-303
LogResult ==
    /\ pc = "log"
    /\ log' = LogStatus(log, "fwh", status, kwargs.outlvl, "Initialization Complete.")
    /\ pc' = "restore"
    /\ UNCHANGED <<Static, call, val, fixed, active, istate, cstate, status, nsolve,
                   ret, exc, pre, inits, solves, everFixed, events>>

\* mutation of the restore: the snapshot is not applied to the flags
RestoreFixedSkipped(fx, sd) == fx

\* line 305: from_json(self, sd=istate, wts=sp), the fixed flags
RestoreFixed(fx, sd) == from_json_fixed(fx, sd)

\* mutation of the restore: the snapshot is not applied to the values
RestoreValueSkipped(v, sd) == v

\* line 305: from_json(self, sd=istate, wts=sp), the values
RestoreValue(v, sd) == from_json_value(v, sd)

\* line 305: restore the snapshot; FWH0D.initialize returns (nothing)
FWHRestore ==
    /\ pc = "restore"
    /\ fixed' = RestoreFixed(fixed, istate)
    /\ val' = RestoreValue(val, istate)
    /\ active' = from_json_active(active, istate)
    /\ events' = Append(events, Event("restore", "fwh", <<>>, Extr(active')))
    /\ pc' = "returned"
    /\ ret' = "None"
    /\ UNCHANGED <<Static, call, istate, cstate, status, nsolve, log, exc, pre,
                   inits, solves, everFixed>>

Next ==
    \/ Build
    \/ Setup
    \/ FWHCall
    \/ CondCall
    \/ DesuperheatStep
    \/ MixerStep
    \/ CondensePre
    \/ CondEnter
    \/ CondSolve
    \/ CondLog
    \/ CondRestore
    \/ CoolingStep
    \/ DofCheck
    \/ CoupledSolve
    \/ LogResult
    \/ FWHRestore

Spec == Init /\ [][Next]_vars

TypeOK ==
    /\ pc \in {"new", "built", "idle", "desuperheat", "mixer", "condense",
               "cond_enter", "cond_solve", "cond_log", "cond_restore", "cooling",
               "dof", "solve", "log", "restore", "returned", "raised"}
    /\ DOMAIN val = DOMAIN fixed
    /\ \A x \in DOMAIN fixed : fixed[x] \in BOOLEAN

(***************************************************************************)
(* Port copy on its own: _set_port applied once and again to a pair of     *)
(* ports the initialization copies between.                                *)
(***************************************************************************)
\* the (destination, source) pairs of the _set_port calls of FWH0D.initialize
SetPortCalls ==
    {<<<<"desuperheat", "inlet_2">>, <<"cooling", "inlet_2">>>>,
     <<<<"desuperheat", "inlet_2">>, <<"condense", "inlet_2">>>>,
     <<<<"drain_mix", "steam">>, <<"desuperheat", "outlet_1">>>>,
     <<<<"condense", "inlet_1">>, <<"desuperheat", "outlet_1">>>>,
     <<<<"condense", "inlet_1">>, <<"drain_mix", "outlet">>>>,
     <<<<"condense", "inlet_2">>, <<"cooling", "inlet_2">>>>,
     <<<<"cooling", "inlet_1">>, <<"condense", "outlet_1">>>>}

PortValues == {NoValue} \cup 0..MaxVal

InitPort ==
    /\ cfg = [has_desuperheat |-> TRUE, has_drain_mixer |-> TRUE,
              has_drain_cooling |-> TRUE]
    /\ kwargs = [outlvl |-> 0]
    /\ call = "set_port"
    /\ pc = "port_idle"
    /\ units = BuildUnits(cfg)
    /\ arcs = BuildArcs(cfg)
    /\ \E c \in SetPortCalls :
          /\ val \in [PortVars(c[1]) \cup PortVars(c[2]) -> PortValues]
          /\ \E D \in SUBSET PortVars(c[1]), b \in BOOLEAN :
                fixed = [x \in PortVars(c[1]) \cup PortVars(c[2]) |->
                            IF x \in PortVars(c[1]) THEN x \in D ELSE b]
          /\ h1 = [p1 |-> c[1], p2 |-> c[2], val0 |-> val, fixed0 |-> fixed,
                   val1 |-> val]
    /\ active = <<>>
    /\ istate = EmptySnapshot
    /\ cstate = EmptySnapshot
    /\ status = "none"
    /\ nsolve = 0
    /\ log = <<>>
    /\ ret = "none"
    /\ exc = "none"
    /\ pre = EmptySnapshot
    /\ inits = <<>>
    /\ solves = <<>>
    /\ everFixed = {}
    /\ config = BuildConfig(cfg, TestConfig)
    /\ inst = BuildInst(cfg, config)
    /\ events = <<>>

PortFrame == UNCHANGED <<cfg, kwargs, call, units, arcs, fixed, active, istate,
                         cstate, status, nsolve, log, ret, pre, inits, solves,
                         everFixed, config, inst, events>>

\* _set_port(p1, p2), first call
PortCopy ==
    /\ pc = "port_idle"
    /\ val' = _set_port(val, fixed, h1.p1, h1.p2)
    /\ h1' = [h1 EXCEPT !.val1 = val']
    /\ IF PortHasValues(val, h1.p2)
       THEN pc' = "port_once" /\ UNCHANGED exc
       ELSE Raise("ValueError")
    /\ PortFrame

\* _set_port(p1, p2) called again with the source untouched
PortCopyAgain ==
    /\ pc = "port_once"
    /\ val' = _set_port(val, fixed, h1.p1, h1.p2)
    /\ pc' = "port_twice"
    /\ UNCHANGED <<h1, exc>>
    /\ PortFrame

NextPort == PortCopy \/ PortCopyAgain

SpecPort == InitPort /\ [][NextPort]_vars

(***************************************************************************)
(* Construction, step by step: the options the caller gives are validated  *)
(* against the declared domains, then FWH0D.build assembles the sub-units  *)
(* one after the other (FeedFlash.build: the control volume).  Option      *)
(* values are written as Python literals.                                  *)
(***************************************************************************)
\* Python ==: True equals 1 and False equals 0
PyEq(a, b) ==
    \/ a = b
    \/ {a, b} = {"True", "1"}
    \/ {a, b} = {"False", "0"}

\* Python truth value of a literal
Truthy(r) == r \notin {"False", "0", "None"}

\* pyomo.common.config.In: membership in the listed values
In(domain, r) == \E i \in 1..Len(domain) : PyEq(domain[i], r)

\* mutation of the declaration: the flags accept any value
BoolDomainAny == <<"True", "False", "'yes'", "None">>

\* domain=In([True, False]) of has_drain_mixer, has_desuperheat, has_drain_cooling
BoolDomain == <<"True", "False">>

\* domain=In([False]) of dynamic and has_holdup of FeedFlash
FalseDomain == <<"False">>

Flags == {"has_drain_mixer", "has_desuperheat", "has_drain_cooling"}

FeedFlags == {"dynamic", "has_holdup"}

\* values a caller may give for a flag of FWH0D
RawFlags == {"True", "False", "1", "'yes'"}

\* values a caller may give for dynamic and has_holdup of FeedFlash
RawFeedFlags == {"False", "True", "0"}

\* default=True of the three flags
DefaultFlags ==
    [has_desuperheat |-> TRUE, has_drain_mixer |-> TRUE, has_drain_cooling |-> TRUE]

\* the domain declared for option k
DomainOf(k) == IF k \in Flags THEN BoolDomain ELSE FalseDomain

\* options of one side of a section as a caller may give them: nothing (the
\* default), or a package of its own with its arguments
SideChoices == {SideOptions(useDefault, "{}"), SideOptions("Q", "qargs")}

HXChoices == {HXOptions(s1, s2) : s1 \in SideChoices, s2 \in SideChoices}

ConfigChoices ==
    {[property_package |-> "P", property_package_args |-> "pargs",
      condense |-> c, desuperheat |-> d, cooling |-> k] :
        c \in HXChoices, d \in HXChoices, k \in HXChoices}

InitBuild ==
    /\ \/ /\ call = "FWH0D"
          /\ \E r \in [Flags -> RawFlags], cf \in ConfigChoices :
                /\ h1 = [raw |-> r, config |-> cf]
                /\ config = cf
       \/ /\ call = "FeedFlash"
          /\ \E r \in [FeedFlags -> RawFeedFlags] :
                h1 = [raw |-> r, config |-> TestConfig]
          /\ config = TestConfig
    /\ cfg = DefaultFlags
    /\ kwargs = [outlvl |-> 0]
    /\ pc = "declared"
    /\ units = {}
    /\ arcs = {}
    /\ val = <<>>
    /\ fixed = <<>>
    /\ active = <<>>
    /\ istate = EmptySnapshot
    /\ cstate = EmptySnapshot
    /\ status = "none"
    /\ nsolve = 0
    /\ log = <<>>
    /\ ret = "none"
    /\ exc = "none"
    /\ pre = EmptySnapshot
    /\ inits = <<>>
    /\ solves = <<>>
    /\ everFixed = {}
    /\ inst = <<>>
    /\ events = <<>>

BuildFrame == UNCHANGED <<kwargs, call, istate, cstate, status, nsolve, log, ret,
                          pre, inits, solves, everFixed, h1, events>>

\* the given options are set on the configuration block, each checked
\* against its declared domain; the first value out of domain raises
Configure ==
    /\ pc = "declared"
    /\ IF \A k \in DOMAIN h1.raw : In(DomainOf(k), h1.raw[k])
       THEN /\ pc' = IF call = "FWH0D" THEN "b_condense" ELSE "f_volume"
            /\ cfg' = IF call = "FWH0D" THEN [k \in Flags |-> Truthy(h1.raw[k])]
                      ELSE cfg
            /\ UNCHANGED exc
       ELSE /\ Raise("ValueError")
            /\ UNCHANGED cfg
    /\ UNCHANGED <<units, arcs, val, fixed, active, config, inst>>
    /\ BuildFrame

\* the variables and constraints of the sub-units us come into existence
Populate(us, as) ==
    /\ units' = us
    /\ val' = [x \in VarsOf(us) |-> BuildValue(x)]
    /\ fixed' = [x \in VarsOf(us) |-> FALSE]
    /\ active' = [c \in ConsOf(us, as) |-> TRUE]

\* lines 181-183: the condensing section
BuildCondense ==
    /\ pc = "b_condense"
    /\ config' = SetSection(config, "condense")
    /\ inst' = Instantiate(inst, "condense", config'["condense"])
    /\ Populate(units \cup {"condense"}, {})
    /\ pc' = "b_mixer"
    /\ UNCHANGED <<cfg, arcs, exc>>
    /\ BuildFrame

\* lines 185-205: the drain mixer and its Arc
BuildMixer ==
    /\ pc = "b_mixer"
    /\ IF cfg.has_drain_mixer
       THEN /\ inst' = Instantiate(inst, "drain_mix", MixerOptions(config))
            /\ Populate(units \cup {"drain_mix"}, {})
            /\ arcs' = arcs \cup MixerArcs
       ELSE UNCHANGED <<inst, units, val, fixed, active, arcs>>
    /\ pc' = "b_desuperheat"
    /\ UNCHANGED <<cfg, config, exc>>
    /\ BuildFrame

\* lines 207-224: the desuperheat section and its Arcs
BuildDesuperheat ==
    /\ pc = "b_desuperheat"
    /\ IF cfg.has_desuperheat
       THEN /\ config' = SetSection(config, "desuperheat")
            /\ inst' = Instantiate(inst, "desuperheat", config'["desuperheat"])
            /\ Populate(units \cup {"desuperheat"}, {})
            /\ arcs' = arcs \cup DesuperheatArcs(cfg)
       ELSE UNCHANGED <<config, inst, units, val, fixed, active, arcs>>
    /\ pc' = "b_cooling"
    /\ UNCHANGED <<cfg, exc>>
    /\ BuildFrame

\* lines 226-238: the drain-cooling section and its Arcs
BuildCooling ==
    /\ pc = "b_cooling"
    /\ IF cfg.has_drain_cooling
       THEN /\ config' = SetSection(config, "cooling")
            /\ inst' = Instantiate(inst, "cooling", config'["cooling"])
            /\ Populate(units \cup {"cooling"}, {})
            /\ arcs' = arcs \cup CoolingArcs
       ELSE UNCHANGED <<config, inst, units, val, fixed, active, arcs>>
    /\ pc' = "b_expand"
    /\ UNCHANGED <<cfg, exc>>
    /\ BuildFrame

\* line 240: the Arcs are expanded into equality constraints
BuildExpand ==
    /\ pc = "b_expand"
    /\ active' = [c \in ConsOf(units, arcs) |-> TRUE]
    /\ pc' = "built"
    /\ UNCHANGED <<cfg, units, arcs, val, fixed, config, inst, exc>>
    /\ BuildFrame

\* lines 95-99: the options the control volume of FeedFlash is constructed
\* with; dynamic and has_holdup are passed on as validated, the property
\* package as given
FeedVolumeOptions(raw, cf) ==
    [dynamic |-> raw["dynamic"],
     has_holdup |-> raw["has_holdup"],
     property_package |-> cf.property_package,
     property_package_args |-> cf.property_package_args]

\* lines 111-115: the isothermal constraint of FeedFlash
isothermal == <<"feed", "isothermal", "">>

\* lines 121-132: one Reference on the unit per state variable of the inlet
\* state; line 135: the outlet port with one member per state variable
FeedVars ==
    {<<"feed", "", n>> : n \in StateVars} \cup PortVars(<<"feed", "outlet">>)

\* lines 103-118: what build asks of the control volume, in order
FeedVolumeCalls ==
    << Event("add_state_blocks", "control_volume", <<>>, FALSE),
       Event("add_material_balances", "control_volume", <<>>, FALSE),
       Event("add_momentum_balances", "control_volume", <<>>, FALSE) >>

\* FeedFlash.build: the control volume is constructed from the validated
\* options and asked for its state blocks and balances, the isothermal
\* constraint, the references to the state variables and the outlet port
\* are added
FeedBuild ==
    /\ pc = "f_volume"
    /\ units' = {"control_volume"}
    /\ inst' = Instantiate(inst, "control_volume",
                           FeedVolumeOptions(h1.raw, config))
    /\ events' = events \o FeedVolumeCalls
    /\ active' = [c \in {isothermal} |-> TRUE]
    /\ val' = [x \in FeedVars |-> InitialGuess]
    /\ fixed' = [x \in FeedVars |-> FALSE]
    /\ pc' = "built"
    /\ UNCHANGED <<cfg, arcs, config, exc>>
    /\ UNCHANGED <<kwargs, call, istate, cstate, status, nsolve, log, ret, pre,
                   inits, solves, everFixed, h1>>

NextBuild ==
    \/ Configure
    \/ BuildCondense
    \/ BuildMixer
    \/ BuildDesuperheat
    \/ BuildCooling
    \/ BuildExpand
    \/ FeedBuild

SpecBuild == InitBuild /\ [][NextBuild]_vars

(***************************************************************************)
(* The snapshot on its own: capture, any changes of flags and values, then *)
(* restore, on a feedwater heater set up as in the end-to-end test.        *)
(***************************************************************************)
\* at most this many flags and values differ from the captured state
MaxChanged == 2

\* configurations of the snapshot specification: the condensing section
\* alone or with the drain mixer
SnapConfigs == {c \in Configs : ~c.has_desuperheat /\ ~c.has_drain_cooling}

InitSnap ==
    /\ cfg \in SnapConfigs
    /\ kwargs = [outlvl |-> 0]
    /\ call = "snapshot"
    /\ pc = "snap_idle"
    /\ units = BuildUnits(cfg)
    /\ arcs = BuildArcs(cfg)
    /\ config = BuildConfig(cfg, TestConfig)
    /\ inst = BuildInst(cfg, config)
    /\ fixed = [x \in VarsOf(units) |-> x \in TestPattern(cfg)]
    /\ val = SetupValues(cfg, [x \in VarsOf(units) |-> BuildValue(x)],
                         TestPattern(cfg), {})
    /\ \E b \in BOOLEAN :
          active = [c \in ConsOf(units, arcs) |->
                       IF c = extraction_rate_constraint THEN b ELSE TRUE]
    /\ istate = EmptySnapshot
    /\ cstate = EmptySnapshot
    /\ status = "none"
    /\ nsolve = 0
    /\ log = <<>>
    /\ ret = "none"
    /\ exc = "none"
    /\ pre = EmptySnapshot
    /\ inits = <<>>
    /\ solves = <<>>
    /\ everFixed = {}
    /\ h1 = <<>>
    /\ events = <<>>

SnapFrame == UNCHANGED <<cfg, kwargs, call, units, arcs, cstate, status, nsolve,
                         log, ret, exc, inits, solves, everFixed, config, inst,
                         events>>

\* number of flags and values that differ from the captured state
Changed(v, fx, act) ==
    Cardinality({x \in DOMAIN fx : fx[x] # pre.fixed[x]})
        + Cardinality({x \in DOMAIN v : v[x] # pre.value[x]})
        + Cardinality({c \in DOMAIN act : act[c] # pre.active[c]})

\* lines 244-245: the snapshot is captured
SnapCapture ==
    /\ pc = "snap_idle"
    /\ istate' = CaptureState(val, fixed, active)
    /\ pre' = Snapshot(val, fixed, active)
    /\ pc' = "snap_held"
    /\ UNCHANGED <<val, fixed, active, h1>>
    /\ SnapFrame

\* v.fix()
SnapFix ==
    /\ pc = "snap_held"
    /\ \E x \in DOMAIN fixed :
          /\ ~fixed[x]
          /\ fixed' = Fix(fixed, {x})
    /\ Changed(val, fixed', active) <= MaxChanged
    /\ UNCHANGED <<pc, val, active, istate, pre, h1>>
    /\ SnapFrame

\* v.fix(value): the variable is fixed at a new value
SnapFixAt ==
    /\ pc = "snap_held"
    /\ \E x \in DOMAIN fixed :
          /\ fixed' = Fix(fixed, {x})
          /\ val' = [val EXCEPT ![x] = Stamp(1)]
    /\ Changed(val', fixed', active) <= MaxChanged
    /\ UNCHANGED <<pc, active, istate, pre, h1>>
    /\ SnapFrame

\* v.unfix()
SnapUnfix ==
    /\ pc = "snap_held"
    /\ \E x \in DOMAIN fixed :
          /\ fixed[x]
          /\ fixed' = Unfix(fixed, {x})
    /\ Changed(val, fixed', active) <= MaxChanged
    /\ UNCHANGED <<pc, val, active, istate, pre, h1>>
    /\ SnapFrame

\* c.activate()
SnapActivate ==
    /\ pc = "snap_held"
    /\ \E c \in DOMAIN active :
          /\ ~active[c]
          /\ active' = SetActive(active, c, TRUE)
    /\ Changed(val, fixed, active') <= MaxChanged
    /\ UNCHANGED <<pc, val, fixed, istate, pre, h1>>
    /\ SnapFrame

\* c.deactivate()
SnapDeactivate ==
    /\ pc = "snap_held"
    /\ \E c \in DOMAIN active :
          /\ active[c]
          /\ active' = SetActive(active, c, FALSE)
    /\ Changed(val, fixed, active') <= MaxChanged
    /\ UNCHANGED <<pc, val, fixed, istate, pre, h1>>
    /\ SnapFrame

\* line 305: from_json(self, sd=istate, wts=sp)
SnapRestore ==
    /\ pc = "snap_held"
    /\ h1' = Snapshot(val, fixed, active)
    /\ fixed' = RestoreFixed(fixed, istate)
    /\ val' = RestoreValue(val, istate)
    /\ active' = from_json_active(active, istate)
    /\ pc' = "snap_done"
    /\ UNCHANGED <<istate, pre>>
    /\ SnapFrame

NextSnap ==
    \/ SnapCapture
    \/ SnapFix
    \/ SnapFixAt
    \/ SnapUnfix
    \/ SnapActivate
    \/ SnapDeactivate
    \/ SnapRestore

SpecSnap == InitSnap /\ [][NextSnap]_vars

(***************************************************************************)
(* Properties                                                              *)
(***************************************************************************)
FixedSet(fx) == {x \in DOMAIN fx : fx[x]}

Warnings(n) == {i \in 1..Len(log) : log[i].level = "warning" /\ log[i].name = n}

AllTrue == [has_desuperheat |-> TRUE, has_drain_mixer |-> TRUE,
            has_drain_cooling |-> TRUE]

\* C1: when FWH0D.initialize returns normally, the fixed flag of every
\* variable and the active flag of every constraint equal their values
\* immediately before the call, whatever the configuration and the
\* termination status of the solves.
C1_FlagsUnchangedOnReturn ==
    (pc = "returned" /\ call = "fwh") =>
        (fixed = pre.fixed /\ active = pre.active)

\* a call returned after a non-optimal solve, and a variable that was unfixed
\* before the call was seen fixed during it
C1_Witness ==
    /\ pc = "returned"
    /\ call = "fwh"
    /\ Warnings("fwh") # {}
    /\ \E x \in everFixed : ~pre.fixed[x]

\* C2: on every exit path of FWH0D.initialize and FWHCondensing0D.initialize,
\* also when an exception reaches the caller, the fixed and active flags have
\* been restored to the values captured in the snapshot of the call.
C2_RestoredOnEveryExit ==
    pc = "raised" =>
        /\ call = "fwh" => (fixed = istate.fixed /\ active = istate.active)
        /\ (call = "cond" /\ cstate # EmptySnapshot) =>
              /\ \A x \in DOMAIN cstate.fixed : fixed[x] = cstate.fixed[x]
              /\ \A c \in DOMAIN cstate.active : active[c] = cstate.active[c]

\* C3: FWH0D.initialize returns to its caller a result that carries the
\* termination status of the coupled solve.
C3_ReturnsStatus ==
    (pc = "returned" /\ call = "fwh") => ret = status

\* C4: a non-optimal termination status of the solve of the condensing
\* section or of the coupled solve never raises: the step after the solve
\* emits exactly one warning for it, the snapshot restore follows without a
\* further message, and control goes on through the remaining steps in order
\* (drain cooling, degrees-of-freedom check, coupled solve, restore, return);
\* only a failure of a later step itself can still end the call.
C4_NonOptimalAbsorbed ==
    [][/\ (pc = "cond_log" /\ status # "optimal") =>
              /\ pc' = "cond_restore"
              /\ Len(log') = Len(log) + 1
              /\ SubSeq(log', 1, Len(log)) = log
              /\ log'[Len(log')].level = "warning"
              /\ log'[Len(log')].name = "condense"
       /\ pc = "cond_restore" =>
              /\ pc' = (IF call = "cond" THEN "returned" ELSE "cooling")
              /\ log' = log
       /\ pc = "cooling" => (pc' \in {"dof", "raised"} /\ log' = log)
       /\ pc = "dof" => (pc' \in {"solve", "raised"} /\ log' = log)
       /\ pc = "solve" => (pc' \in {"log", "raised"} /\ log' = log)
       /\ (pc = "log" /\ status # "optimal") =>
              /\ pc' = "restore"
              /\ Len(log') = Len(log) + 1
              /\ SubSeq(log', 1, Len(log)) = log
              /\ log'[Len(log')].level = "warning"
              /\ log'[Len(log')].name = "fwh"
       /\ pc = "restore" => (pc' = "returned" /\ log' = log)
      ]_vars

\* both solves of a call ended non-optimal and the call returned
C4_Witness ==
    /\ pc = "returned"
    /\ call = "fwh"
    /\ Cardinality(Warnings("condense")) = 1
    /\ Cardinality(Warnings("fwh")) = 1

\* sub-unit initializations of a configuration, in the order of the code
ExpectedInits(c) ==
    (IF c.has_desuperheat THEN <<"desuperheat">> ELSE <<>>)
        \o (IF c.has_drain_mixer THEN <<"drain_mix">> ELSE <<>>)
        \o <<"condense">>
        \o (IF c.has_drain_cooling THEN <<"cooling">> ELSE <<>>)

IsPrefix(a, b) == Len(a) <= Len(b) /\ SubSeq(b, 1, Len(a)) = a

\* C5: in every FWH0D.initialize call the sub-units are initialized in the
\* order desuperheat, drain mixer, condensing, drain cooling, each present one
\* exactly once and an absent one never, and all of them have completed when
\* the coupled solve starts.
C5_InitOrder ==
    call = "fwh" =>
        /\ IsPrefix(inits, ExpectedInits(cfg))
        /\ (pc \in {"dof", "solve", "log", "restore", "returned"}
               \/ \E i \in 1..Len(solves) : solves[i].block = "fwh")
              => inits = ExpectedInits(cfg)

\* the coupled solve is about to start with all four sub-units initialized
C5_Witness ==
    /\ pc = "solve"
    /\ cfg = AllTrue
    /\ inits = <<"desuperheat", "drain_mix", "condense", "cooling">>

\* C6: the coupled solve is invoked only with zero degrees of freedom; a
\* non-zero count at the check aborts the call with an AssertionError before
\* any coupled solve, and nothing runs after the error.
C6_SolveOnlyAtZeroDof ==
    [][/\ (pc = "dof" /\ degrees_of_freedom(fixed, active) # 0) =>
              (pc' = "raised" /\ exc' = "AssertionError" /\ solves' = solves)
       /\ pc' = "solve" => degrees_of_freedom(fixed', active') = 0
       /\ pc = "solve" =>
              /\ degrees_of_freedom(fixed, active) = 0
              /\ solves' = Append(solves, SolveRecord("fwh", 0))
       /\ pc # "raised"
      ]_vars

\* the check failed: the call raised AssertionError and no coupled solve ran
C6_Witness ==
    /\ pc = "raised"
    /\ exc = "AssertionError"
    /\ degrees_of_freedom(fixed, active) # 0
    /\ \A i \in 1..Len(solves) : solves[i].block # "fwh"

\* C7: in every configuration, if before the call the variables fixed are
\* those of the end-to-end test (boundary inlets except the steam flow rate,
\* areas, heat-transfer coefficients) and the degrees of freedom are zero,
\* the degrees of freedom are zero at the check of FWH0D.initialize.
C7_DofPreserved ==
    (/\ pc = "dof"
     /\ call = "fwh"
     /\ FixedSet(pre.fixed) = TestPattern(cfg)
     /\ degrees_of_freedom(pre.fixed, pre.active) = 0)
        => degrees_of_freedom(fixed, active) = 0

\* the check is reached from the test pattern with every sub-unit present
C7_Witness ==
    /\ pc = "dof"
    /\ call = "fwh"
    /\ cfg = AllTrue
    /\ FixedSet(pre.fixed) = TestPattern(cfg)
    /\ degrees_of_freedom(pre.fixed, pre.active) = 0
    /\ Len(inits) = 4

\* C8: after _set_port(p1, p2) every member of the destination port has the
\* value of the same-named member of the source port, also when the
\* destination member is fixed; the fixed flags of both ports and the values
\* of the source port are unchanged.
C8_PortCopied ==
    pc = "port_once" =>
        /\ \A n \in StateVars :
              val[<<h1.p1[1], h1.p1[2], n>>] = h1.val0[<<h1.p2[1], h1.p2[2], n>>]
        /\ \A x \in PortVars(h1.p2) : val[x] = h1.val0[x]
        /\ fixed = h1.fixed0

\* a copy overwrote a fixed destination member with a different value
C8_Witness ==
    /\ pc = "port_once"
    /\ \E x \in PortVars(h1.p1) : fixed[x] /\ val[x] # h1.val0[x]

\* C9: calling _set_port(p1, p2) twice in succession leaves the destination
\* port with the values it had after the first call.
C9_PortCopyIdempotent ==
    pc = "port_twice" =>
        \A x \in PortVars(h1.p1) : val[x] = h1.val1[x]

\* two copies in succession, the first of which changed the destination
C9_Witness ==
    /\ pc = "port_twice"
    /\ \E x \in PortVars(h1.p1) : h1.val1[x] # h1.val0[x]

\* C10: after FWH0D.build each optional sub-unit exists exactly when its
\* flag is true, and the condensing section always exists.
C10_UnitsMatchFlags ==
    pc # "new" =>
        /\ ("drain_mix" \in units) = cfg.has_drain_mixer
        /\ ("desuperheat" \in units) = cfg.has_desuperheat
        /\ ("cooling" \in units) = cfg.has_drain_cooling
        /\ "condense" \in units

\* a feedwater heater was built with the mixer and without the two
\* optional heat-exchanger sections
C10_Witness ==
    /\ pc = "built"
    /\ units = {"condense", "drain_mix"}
    /\ ~cfg.has_desuperheat
    /\ ~cfg.has_drain_cooling

ArcInto(p) == {a \in arcs : a.destination = p}

\* C11: every Arc of the assembly joins ports of present sub-units, no port
\* is the destination of two Arcs, the steam inlet of the condensing section
\* is fed by the mixer outlet if the mixer is present, else by the desuperheat
\* steam outlet if desuperheat is present, else by no Arc, and the desuperheat
\* steam outlet feeds the mixer steam inlet when both are present.
C11_ArcsJoinPresentUnits ==
    pc # "new" =>
        /\ \A a \in arcs :
              /\ a.source[1] \in units /\ a.source[2] \in PortsOf(a.source[1])
              /\ a.destination[1] \in units
              /\ a.destination[2] \in PortsOf(a.destination[1])
        /\ \A a, b \in arcs : a.destination = b.destination => a = b
        /\ LET into == {a.source : a \in ArcInto(<<"condense", "inlet_1">>)}
           IN  into = IF cfg.has_drain_mixer THEN {<<"drain_mix", "outlet">>}
                      ELSE IF cfg.has_desuperheat THEN {<<"desuperheat", "outlet_1">>}
                      ELSE {}
        /\ (cfg.has_drain_mixer /\ cfg.has_desuperheat) =>
              \E a \in arcs : /\ a.source = <<"desuperheat", "outlet_1">>
                              /\ a.destination = <<"drain_mix", "steam">>

\* a feedwater heater was built with desuperheat and mixer: the desuperheat
\* steam outlet is wired to the mixer and the mixer to the condensing section
C11_Witness ==
    /\ pc = "built"
    /\ cfg.has_desuperheat
    /\ cfg.has_drain_mixer
    /\ Cardinality(ArcInto(<<"condense", "inlet_1">>)) = 1
    /\ Cardinality(ArcInto(<<"drain_mix", "steam">>)) = 1

\* the options a side of a section must be instantiated with, given the
\* options the caller passed
Inherited(cf, sec, side) ==
    IF cf[sec][side].property_package = useDefault
    THEN SideOptions(cf.property_package, cf.property_package_args)
    ELSE cf[sec][side]

\* C12: every heat-exchanger section is instantiated with options in which a
\* side left at useDefault carries the package and arguments of the feedwater
\* heater and a side with a package of its own carries its own package and
\* arguments; the options of the feedwater heater itself are not changed.
C12_PackageInheritedBeforeInstantiation ==
    call = "FWH0D" =>
        /\ \A sec \in DOMAIN inst \cap Sections :
              /\ inst[sec].side_1 = Inherited(h1.config, sec, "side_1")
              /\ inst[sec].side_2 = Inherited(h1.config, sec, "side_2")
        /\ config.property_package = h1.config.property_package
        /\ config.property_package_args = h1.config.property_package_args
        /\ pc = "built" => DOMAIN inst = BuildUnits(cfg)

\* the drain-cooling section was instantiated with one side inherited and the
\* other side keeping its own package
C12_Witness ==
    /\ call = "FWH0D"
    /\ "cooling" \in DOMAIN inst
    /\ h1.config.cooling.side_1.property_package = useDefault
    /\ h1.config.cooling.side_2.property_package = "Q"
    /\ inst["cooling"].side_1.property_package = "P"
    /\ inst["cooling"].side_2.property_package = "Q"

\* a value of option k that equals no value of the declared domain
OutOfDomain(k, r) == ~In(DomainOf(k), r)

\* nothing of the unit exists
NothingBuilt ==
    units = {} /\ arcs = {} /\ inst = <<>> /\ val = <<>> /\ active = <<>>

\* C13 as stated: a non-boolean given for a flag of FWH0D, or True given for
\* dynamic or has_holdup of FeedFlash, makes the construction raise before
\* anything is built.
C13_NonBooleanRejected ==
    LET bad == \/ /\ call = "FWH0D"
                  /\ \E k \in Flags : h1.raw[k] \notin {"True", "False"}
               \/ /\ call = "FeedFlash"
                  /\ \E k \in FeedFlags : h1.raw[k] = "True"
    IN  bad => pc \in {"declared", "raised"} /\ NothingBuilt

\* C13, amended: a value that equals no value of the declared domain under
\* Python equality (for a flag of FWH0D anything but True, False, 1 and 0; for
\* dynamic and has_holdup of FeedFlash anything but False and 0) makes the
\* construction raise before anything is built, and nothing is built later;
\* the construction raises for no other reason, and a flag given as 1 is
\* accepted and the unit is built with the flag true.
C13_InvalidConfigRejected ==
    LET bad == \E k \in DOMAIN h1.raw : OutOfDomain(k, h1.raw[k])
    IN  /\ bad => pc \in {"declared", "raised"}
        /\ (bad \/ pc = "raised") => NothingBuilt
        /\ pc = "raised" => bad /\ exc = "ValueError"
        /\ (pc = "built" /\ call = "FWH0D") =>
              \A k \in Flags : cfg[k] = (h1.raw[k] \in {"True", "1"})

\* FWH0D was given has_desuperheat='yes' next to has_drain_mixer=1 and the
\* construction raised with nothing built
C13_Witness ==
    /\ call = "FWH0D"
    /\ h1.raw["has_desuperheat"] = "'yes'"
    /\ h1.raw["has_drain_mixer"] = "1"
    /\ h1.raw["has_drain_cooling"] = "True"
    /\ pc = "raised"
    /\ exc = "ValueError"
    /\ NothingBuilt

\* C14: after capture, any changes of fixed and active flags, and restore,
\* every fixed flag and every active flag is as it was at capture, and a
\* variable that was unfixed at capture has the value it had just before the
\* restore.
C14_SnapshotRoundTrip ==
    pc = "snap_done" =>
        /\ fixed = pre.fixed
        /\ active = pre.active
        /\ \A x \in DOMAIN val : ~pre.fixed[x] => val[x] = h1.value[x]

\* a restore undid a change of a fixed flag and left in place the new value
\* of a variable that was unfixed at capture
C14_Witness ==
    /\ pc = "snap_done"
    /\ h1.fixed # pre.fixed
    /\ \E x \in DOMAIN val :
          ~pre.fixed[x] /\ h1.value[x] # pre.value[x] /\ val[x] = h1.value[x]

\* C15: after FWH0D.initialize returns, every variable that was unfixed
\* before the call holds the value written by the final coupled solve.
C15_UnfixedHoldSolveValues ==
    (pc = "returned" /\ call = "fwh") =>
        \A x \in DOMAIN val : ~pre.fixed[x] => val[x] = Stamp(nsolve)

\* C16: when the caller passes solver options (optarg, as the test does),
\* every solve of the call is invoked with exactly those options.
C16_OptionsReachSolver ==
    "optarg" \in DOMAIN kwargs =>
        \A i \in 1..Len(solves) : solves[i].options = kwargs["optarg"]

\* positions of the history at which event e happened
EventsOf(e) == {i \in 1..Len(events) : events[i].ev = e}

\* C17: in FWH0D.initialize every sub-unit initialization comes after the
\* extraction-rate constraint was deactivated by the call, so none runs with
\* the constraint in its pre-call active state.
C17_RelaxedBeforeFirstInit ==
    call = "fwh" =>
        \A i \in EventsOf("init") : \E j \in EventsOf("deactivate") : j < i

\* C18: in FWH0D.initialize the extraction-rate constraint is reactivated
\* only after every sub-unit initialization of the call, and it is active at
\* the degrees-of-freedom check and at the coupled solve.
C18_RestoredAfterLastInit ==
    call = "fwh" =>
        /\ \A a \in EventsOf("activate"), i \in EventsOf("init") : i < a
        /\ pc \in {"dof", "solve"} => Extr(active)

\* the block an initialize call works on
BlockOf(cl) == IF cl = "cond" THEN "condense" ELSE "fwh"

\* C19: the snapshot of the called block is captured before the call
\* activates or deactivates anything, and on return every active flag is as
\* the caller left it (a constraint the caller deactivated is still
\* deactivated).
C19_CapturedBeforeAnyChange ==
    call \in {"fwh", "cond"} =>
        /\ \A c \in EventsOf("capture") :
              events[c].who = BlockOf(call) =>
                  \A j \in EventsOf("deactivate") \cup EventsOf("activate") : c < j
        /\ pc = "returned" => active = pre.active

\* positions of the history at which the solver was invoked on block b
SolvesOf(b) == {i \in EventsOf("solve") : events[i].who = b}

\* C20: a call invokes the solver on the whole feedwater heater at most once,
\* after all sub-unit initializations, and on the whole condensing section at
\* most once, after the base initialization of that section; once the status
\* report of a block is reached, whatever the status, its solve has happened
\* exactly once and is not repeated.
C20_SolveOncePerCall ==
    /\ Cardinality(SolvesOf("fwh")) <= 1
    /\ Cardinality(SolvesOf("condense")) <= 1
    /\ \A i \in SolvesOf("fwh") :
          /\ call = "fwh"
          /\ inits = ExpectedInits(cfg)
          /\ \A j \in EventsOf("init") : j < i
    /\ \A i \in SolvesOf("condense") :
          \E j \in EventsOf("init") : events[j].who = "condense" /\ j < i
    /\ (call = "fwh" /\ pc \in {"log", "restore", "returned"}) =>
          Cardinality(SolvesOf("fwh")) = 1 /\ Cardinality(SolvesOf("condense")) = 1
    /\ pc \in {"cond_log", "cond_restore", "cooling", "dof"} =>
          Cardinality(SolvesOf("condense")) = 1 /\ SolvesOf("fwh") = {}
    /\ (call = "cond" /\ pc = "returned") =>
          Cardinality(SolvesOf("condense")) = 1 /\ SolvesOf("fwh") = {}

\* FWH0D.initialize returned after a coupled solve that was not optimal, with
\* one solve of the condensing section and one coupled solve in its history
C20_Witness ==
    /\ pc = "returned"
    /\ call = "fwh"
    /\ status = "infeasible"
    /\ Cardinality(SolvesOf("fwh")) = 1
    /\ Cardinality(SolvesOf("condense")) = 1

\* C21: at the coupled solve of FWH0D.initialize the flow rate of the steam
\* inlet of the feedwater heater is not fixed, in every configuration and
\* whatever the caller had fixed.
C21_SteamFlowFreeAtSolve ==
    (call = "fwh" /\ pc = "solve") => ~fixed[FlowMol(SteamInlet(cfg))]

\* C22: in FWH0D.initialize every value copy follows an Arc of the assembly
\* from its source to its destination and reads from a port of a sub-unit
\* that was initialized before, and every sub-unit is initialized only after
\* each of its ports that is the destination of an Arc was seeded from the
\* source of that Arc.
C22_CopiesFollowArcs ==
    call = "fwh" =>
        /\ \A i \in EventsOf("copy") :
              /\ \E a \in arcs : /\ a.source = events[i].src
                                 /\ a.destination = events[i].who
              /\ \E j \in EventsOf("init") :
                    j < i /\ events[j].who = events[i].src[1]
        /\ \A i \in EventsOf("init") :
              \A a \in arcs :
                  a.destination[1] = events[i].who =>
                      \E j \in EventsOf("copy") :
                          /\ j < i
                          /\ events[j].who = a.destination
                          /\ events[j].src = a.source

\* C23: when a sub-unit step of FWH0D.initialize has ended (the next step,
\* the degrees-of-freedom check or the coupled solve is about to begin), no
\* variable is fixed that was not fixed when the call began.
C23_TemporaryFixesReleased ==
    (call = "fwh" /\ pc \in {"mixer", "condense", "cooling", "dof", "solve"}) =>
        FixedSet(fixed) \subseteq FixedSet(pre.fixed)

\* what the status report of block n may add to the log lg for status s at
\* output level lvl: on optimal one informational message that is not the
\* failure message if lvl >= 2 and nothing otherwise; on any other status one
\* failure warning
ReportedAsClaimed(lg, lg2, n, s, lvl) ==
    IF s = "optimal"
    THEN IF lvl >= 2
         THEN /\ Len(lg2) = Len(lg) + 1
              /\ SubSeq(lg2, 1, Len(lg)) = lg
              /\ lg2[Len(lg2)].level = "info"
              /\ lg2[Len(lg2)].name = n
              /\ lg2[Len(lg2)].msg # "Initialization Failed."
         ELSE lg2 = lg
    ELSE lg2 = Append(lg, LogRecord("warning", n, "Initialization Failed."))

\* C24: the status report after the solve of the condensing section and
\* after the coupled solve logs, on an optimal status, a success message at
\* informational level exactly when the output level is at least 2 and no
\* failure message or warning, and on any other status a failure warning at
\* every output level.
C24_StatusReported ==
    [][/\ pc = "cond_log" =>
              ReportedAsClaimed(log, log', "condense", status, kwargs.outlvl)
       /\ pc = "log" => ReportedAsClaimed(log, log', "fwh", status, kwargs.outlvl)
      ]_vars

\* C25: after FWH0D.initialize returns, every variable that was fixed when
\* the call began has the value it had then, also when a port copy or a solve
\* of the call wrote to it in between.
C25_FixedValuesKept ==
    (pc = "returned" /\ call = "fwh") =>
        \A x \in DOMAIN val : pre.fixed[x] => val[x] = pre.value[x]

\* the call returned after a port copy into the steam inlet of the mixer,
\* one member of which the caller had fixed
C25_Witness ==
    /\ pc = "returned"
    /\ call = "fwh"
    /\ cfg.has_desuperheat
    /\ cfg.has_drain_mixer
    /\ \E x \in PortVars(<<"drain_mix", "steam">>) :
          /\ pre.fixed[x]
          /\ val[x] = UserValue
    /\ \E i \in EventsOf("copy") : events[i].who = <<"drain_mix", "steam">>

\* C26: at every point of FWH0D.initialize and FWHCondensing0D.initialize,
\* started from a model in which every fixed variable has a value, a variable
\* whose fixed flag is true has a value
C26_FixedHaveValues ==
    call \in {"fwh", "cond"} =>
        \A x \in DOMAIN fixed : fixed[x] => val[x] # NoValue

(***************************************************************************)
(* idaes/dmf/util.py: uuid_prefix_len.  An id is a string, modelled as a   *)
(* sequence of characters; uuids is a list of ids.                         *)
(***************************************************************************)
\* longest id, longest list of ids, largest step and largest maxlen drawn
MaxIdLen == 3

MaxIds == 3

MaxStep == 2

MaxMaxLen == 4

Chars == {"a", "b"}

Ids == UNION {[1..n -> Chars] : n \in 0..MaxIdLen}

UuidLists == UNION {[1..n -> Ids] : n \in 0..MaxIds}

\* u[:n]
Prefix(u, n) == SubSeq(u, 1, IF n < Len(u) THEN n ELSE Len(u))

\* set(uuids)
SetOf(uuids) == {uuids[i] : i \in DOMAIN uuids}

\* {u[:n] for u in uuids}
Prefixes(uuids, n) == {Prefix(uuids[i], n) : i \in DOMAIN uuids}

\* lines 302-306: for n in range(step, maxlen, step), return the first n at
\* which there are as many prefixes as ids; return maxlen when the range is
\* exhausted
RECURSIVE SearchFrom(_, _, _, _, _)
SearchFrom(uuids, all_of_them, n, step, maxlen) ==
    IF n >= maxlen THEN maxlen
    ELSE IF Cardinality(Prefixes(uuids, n)) = all_of_them THEN n
    ELSE SearchFrom(uuids, all_of_them, n + step, step, maxlen)

\* lines 300-301: full = set(uuids); all_of_them = len(full)
uuid_prefix_len(uuids, step, maxlen) ==
    SearchFrom(uuids, Cardinality(SetOf(uuids)), step, step, maxlen)

InitUuid ==
    /\ h1 \in [uuids : UuidLists, step : 1..MaxStep, maxlen : 0..MaxMaxLen]
    /\ call = "uuid_prefix_len"
    /\ pc = "uuid_idle"
    /\ cfg = [has_desuperheat |-> FALSE, has_drain_mixer |-> FALSE,
              has_drain_cooling |-> FALSE]
    /\ kwargs = [outlvl |-> 0]
    /\ units = {}
    /\ arcs = {}
    /\ val = <<>>
    /\ fixed = <<>>
    /\ active = <<>>
    /\ istate = EmptySnapshot
    /\ cstate = EmptySnapshot
    /\ status = "none"
    /\ nsolve = 0
    /\ log = <<>>
    /\ ret = "none"
    /\ exc = "none"
    /\ pre = EmptySnapshot
    /\ inits = <<>>
    /\ solves = <<>>
    /\ everFixed = {}
    /\ config = TestConfig
    /\ inst = <<>>
    /\ events = <<>>

\* the call uuid_prefix_len(uuids, step, maxlen) returns
UuidCall ==
    /\ pc = "uuid_idle"
    /\ ret' = uuid_prefix_len(h1.uuids, h1.step, h1.maxlen)
    /\ pc' = "uuid_returned"
    /\ UNCHANGED <<cfg, kwargs, call, units, arcs, val, fixed, active, istate,
                   cstate, status, nsolve, log, exc, pre, inits, solves,
                   everFixed, h1, config, inst, events>>

NextUuid == UuidCall

SpecUuid == InitUuid /\ [][NextUuid]_vars

\* the length-n prefixes of the distinct ids are pairwise distinct
UniqueAt(uuids, n) ==
    \A u, v \in SetOf(uuids) : u # v => Prefix(u, n) # Prefix(v, n)

\* C27: uuid_prefix_len returns a positive multiple of step, the prefixes of
\* that length of the distinct ids are pairwise distinct, and no smaller
\* positive multiple of step has that property
C27_SmallestUniqueMultiple ==
    pc = "uuid_returned" =>
        /\ ret > 0
        /\ ret % h1.step = 0
        /\ UniqueAt(h1.uuids, ret)
        /\ \A k \in 1..MaxMaxLen :
              k * h1.step < ret => ~UniqueAt(h1.uuids, k * h1.step)

====
